---- MODULE Spec2Model ----
(***************************************************************************)
(* Model of package cors (cors.go): the policy built by New, the three    *)
(* matchers, the two response composers and the handler adapters.          *)
(*                                                                         *)
(* A Go string is a sequence of one-character strings, so that ToLower,    *)
(* ToUpper, Join, the header canonicalisation and the header-list parsing  *)
(* are computed character by character.                                    *)
(***************************************************************************)
EXTENDS Integers, Sequences, FiniteSets, TLC

\* ------------------------------------------------------------------ bounds
\* number of requests handled concurrently on one Cors value (SpecConc)
NumReqs == 2
\* longest list of tokens in an Access-Control-Request-Headers value
MaxTokens == 2
\* largest MaxAge option
MaxAgeCap == 12

\* ------------------------------------------------------- string constants
sEmpty == <<>>
sStar == <<"*">>
sGET == <<"G", "E", "T">>
sPOST == <<"P", "O", "S", "T">>
sPUT == <<"P", "U", "T">>
sput == <<"p", "u", "t">>
sHEAD == <<"H", "E", "A", "D">>
sOPTIONS == <<"O", "P", "T", "I", "O", "N", "S">>
soptions == <<"o", "p", "t", "i", "o", "n", "s">>
sOrigin == <<"O", "r", "i", "g", "i", "n">>
sTrue == <<"t", "r", "u", "e">>
sCommaSpace == <<",", " ">>
\* origins
oFO == <<"F", "O">>
oFo == <<"F", "o">>
ofo == <<"f", "o">>
ob == <<"b">>
oz == <<"z">>
\* header names
hxa == <<"x", "-", "a">>
hXA == <<"X", "-", "A">>
hb == <<"b">>
\* a value no handler produces, for headers already on the response
sStale == <<"?">>

\* ---------------------------------------------------- strings (Go stdlib)
LowerAlpha == <<"a", "b", "c", "d", "e", "f", "g", "h", "i", "j", "k", "l", "m",
                "n", "o", "p", "q", "r", "s", "t", "u", "v", "w", "x", "y", "z">>

UpperAlpha == <<"A", "B", "C", "D", "E", "F", "G", "H", "I", "J", "K", "L", "M",
                "N", "O", "P", "Q", "R", "S", "T", "U", "V", "W", "X", "Y", "Z">>

IndexIn(alpha, ch) == IF \E k \in 1..Len(alpha) : alpha[k] = ch
                      THEN CHOOSE k \in 1..Len(alpha) : alpha[k] = ch
                      ELSE 0

UpperChar(ch) == IF IndexIn(LowerAlpha, ch) > 0 THEN UpperAlpha[IndexIn(LowerAlpha, ch)] ELSE ch

LowerChar(ch) == IF IndexIn(UpperAlpha, ch) > 0 THEN LowerAlpha[IndexIn(UpperAlpha, ch)] ELSE ch

\* strings.ToUpper
ToUpper(s) == [k \in 1..Len(s) |-> UpperChar(s[k])]

\* strings.ToLower
ToLower(s) == [k \in 1..Len(s) |-> LowerChar(s[k])]

\* strings.Join
RECURSIVE Join(_, _)
Join(list, sep) == IF Len(list) = 0 THEN <<>>
                   ELSE IF Len(list) = 1 THEN list[1]
                   ELSE list[1] \o sep \o Join(Tail(list), sep)

Digits == <<"0", "1", "2", "3", "4", "5", "6", "7", "8", "9">>

\* strconv.Itoa
RECURSIVE Itoa(_)
Itoa(n) == IF n < 0 THEN <<"-">> \o Itoa(0 - n)
           ELSE IF n < 10 THEN <<Digits[n + 1]>>
           ELSE Itoa(n \div 10) \o <<Digits[(n % 10) + 1]>>

\* ------------------------------------------- helpers of the package (utils)
\* toHeader: canonical capitalisation of a header name ("content-type" ->
\* "Content-Type"): the first letter and every letter after a hyphen in upper
\* case, every other letter in lower case
toHeader(name) == [k \in 1..Len(name) |->
                     IF k = 1 \/ name[k - 1] = "-" THEN UpperChar(name[k]) ELSE LowerChar(name[k])]

\* strings.Split(s, ","): the pieces between commas, empty pieces kept
RECURSIVE SplitComma(_)
SplitComma(s) == IF \A k \in 1..Len(s) : s[k] # ","
                 THEN <<s>>
                 ELSE LET k == CHOOSE j \in 1..Len(s) : s[j] = "," /\ \A m \in 1..(j - 1) : s[m] # ","
                      IN  <<SubSeq(s, 1, k - 1)>> \o SplitComma(SubSeq(s, k + 1, Len(s)))

\* strings.TrimSpace
RECURSIVE TrimSpace(_)
TrimSpace(s) == IF Len(s) = 0 THEN s
                ELSE IF s[1] = " " THEN TrimSpace(Tail(s))
                ELSE IF s[Len(s)] = " " THEN TrimSpace(SubSeq(s, 1, Len(s) - 1))
                ELSE s

\* a converter (func(string) string) applied to one string
converter(c, str) == CASE c = "strings.ToLower" -> ToLower(str)
                       [] c = "strings.ToUpper" -> ToUpper(str)
                       [] c = "toHeader" -> toHeader(str)
                       [] c = "strings.TrimSpace" -> TrimSpace(str)

\* convert applies a converter to every element of a list
convert(s, c) == [k \in 1..Len(s) |-> converter(c, s[k])]

\* parseHeaderList: split on commas, trim each token, keep empty tokens; a
\* request without the header has an empty list
parseHeaderList(headerList) == IF Len(headerList) = 0 THEN <<>>
                               ELSE convert(SplitComma(headerList), "strings.TrimSpace")

\* ------------------------------------------------------------ the policy
\* New without the default for an empty method list
NewNoDefaultMethods(o) ==
    LET normOptions == [AllowedOrigins   |-> convert(o.AllowedOrigins, "strings.ToLower"),
                        AllowedMethods   |-> convert(o.AllowedMethods, "strings.ToUpper"),
                        AllowedHeaders   |-> convert(Append(o.AllowedHeaders, sOrigin), "toHeader"),
                        ExposedHeaders   |-> convert(o.ExposedHeaders, "toHeader"),
                        AllowCredentials |-> o.AllowCredentials,
                        MaxAge           |-> o.MaxAge]
    IN  IF Len(normOptions.AllowedOrigins) = 0
        THEN [normOptions EXCEPT !.AllowedOrigins = <<sStar>>]
        ELSE normOptions

\* New: normalises the options and fills in the defaults
New(o) ==
    LET normOptions == [AllowedOrigins   |-> convert(o.AllowedOrigins, "strings.ToLower"),
                        AllowedMethods   |-> convert(o.AllowedMethods, "strings.ToUpper"),
                        AllowedHeaders   |-> convert(Append(o.AllowedHeaders, sOrigin), "toHeader"),
                        ExposedHeaders   |-> convert(o.ExposedHeaders, "toHeader"),
                        AllowCredentials |-> o.AllowCredentials,
                        MaxAge           |-> o.MaxAge]
        withOrigins == IF Len(normOptions.AllowedOrigins) = 0
                       THEN [normOptions EXCEPT !.AllowedOrigins = <<sStar>>]
                       ELSE normOptions
    IN  IF Len(withOrigins.AllowedMethods) = 0
        THEN [withOrigins EXCEPT !.AllowedMethods = <<sGET, sPOST>>]
        ELSE withOrigins

\* ------------------------------------------------------------ the matchers
RECURSIVE originLoop(_, _, _)
originLoop(allowedOrigins, origin, k) ==
    IF k > Len(allowedOrigins) THEN FALSE
    ELSE IF allowedOrigins[k] = sStar THEN TRUE
    ELSE IF allowedOrigins[k] = origin THEN TRUE
    ELSE originLoop(allowedOrigins, origin, k + 1)

\* isOriginAllowed comparing the origin as received
isOriginAllowedCaseSensitive(c, origin) == originLoop(c.AllowedOrigins, origin, 1)

isOriginAllowed(c, origin) == originLoop(c.AllowedOrigins, ToLower(origin), 1)

RECURSIVE methodLoop(_, _, _)
methodLoop(allowedMethods, method, k) ==
    IF k > Len(allowedMethods) THEN FALSE
    ELSE IF allowedMethods[k] = method THEN TRUE
    ELSE methodLoop(allowedMethods, method, k + 1)

\* isMethodAllowed without the OPTIONS exemption
isMethodAllowedNoExemption(c, method) ==
    IF Len(c.AllowedMethods) = 0 THEN FALSE
    ELSE methodLoop(c.AllowedMethods, ToUpper(method), 1)

isMethodAllowed(c, method) ==
    IF Len(c.AllowedMethods) = 0 THEN FALSE
    ELSE IF ToUpper(method) = sOPTIONS THEN TRUE
    ELSE methodLoop(c.AllowedMethods, ToUpper(method), 1)

RECURSIVE headerFound(_, _, _)
headerFound(allowedHeaders, header, k) ==
    IF k > Len(allowedHeaders) THEN FALSE
    ELSE IF header = allowedHeaders[k] THEN TRUE
    ELSE headerFound(allowedHeaders, header, k + 1)

RECURSIVE headersLoop(_, _, _)
headersLoop(allowedHeaders, requestedHeaders, k) ==
    IF k > Len(requestedHeaders) THEN TRUE
    ELSE IF ~headerFound(allowedHeaders, requestedHeaders[k], 1) THEN FALSE
    ELSE headersLoop(allowedHeaders, requestedHeaders, k + 1)

\* areHeadersAllowed looking at the first requested header only
areHeadersAllowedFirstOnly(c, requestedHeaders) ==
    IF Len(requestedHeaders) = 0 THEN TRUE
    ELSE headerFound(c.AllowedHeaders, requestedHeaders[1], 1)

areHeadersAllowed(c, requestedHeaders) ==
    IF Len(requestedHeaders) = 0 THEN TRUE
    ELSE headersLoop(c.AllowedHeaders, requestedHeaders, 1)

\* ------------------------------------------------------ response composers
ACAO == "Access-Control-Allow-Origin"
ACAM == "Access-Control-Allow-Methods"
ACAH == "Access-Control-Allow-Headers"
ACAC == "Access-Control-Allow-Credentials"
ACMA == "Access-Control-Max-Age"
ACEH == "Access-Control-Expose-Headers"
CorsHeaders == {ACAO, ACAM, ACAH, ACAC, ACMA, ACEH}

\* http.Header.Set
Set(headers, key, value) == [x \in (DOMAIN headers) \cup {key} |-> IF x = key THEN value ELSE headers[x]]

\* the headers a passed preflight gets; allowMethods is the Allow-Methods value
PreflightHeaders(c, headers, origin, allowMethods, reqHeaders) ==
    LET h1 == Set(headers, ACAO, origin)
        h2 == Set(h1, ACAM, allowMethods)
        h3 == IF Len(reqHeaders) > 0 THEN Set(h2, ACAH, Join(reqHeaders, sCommaSpace)) ELSE h2
        h4 == IF c.AllowCredentials THEN Set(h3, ACAC, sTrue) ELSE h3
    IN  IF c.MaxAge > 0 THEN Set(h4, ACMA, Itoa(c.MaxAge)) ELSE h4

\* handlePreflight setting Allow-Origin as soon as the origin has passed
handlePreflightEarlyWrite(c, r, headers) ==
    LET origin == r.Origin IN
    IF r.Method # sOPTIONS \/ origin = sEmpty \/ ~isOriginAllowed(c, origin)
    THEN [headers |-> headers, stage |-> "rejectOrigin"]
    ELSE IF ~isMethodAllowed(c, r.ACRM)
    THEN [headers |-> Set(headers, ACAO, origin), stage |-> "rejectMethod"]
    ELSE IF ~areHeadersAllowed(c, parseHeaderList(r.ACRH))
    THEN [headers |-> Set(headers, ACAO, origin), stage |-> "rejectHeaders"]
    ELSE [headers |-> PreflightHeaders(c, headers, origin, ToUpper(r.ACRM), parseHeaderList(r.ACRH)),
          stage |-> "written"]

\* handlePreflight answering with the policy's allow-list
handlePreflightAllowList(c, r, headers) ==
    LET origin == r.Origin IN
    IF r.Method # sOPTIONS \/ origin = sEmpty \/ ~isOriginAllowed(c, origin)
    THEN [headers |-> headers, stage |-> "rejectOrigin"]
    ELSE IF ~isMethodAllowed(c, r.ACRM)
    THEN [headers |-> headers, stage |-> "rejectMethod"]
    ELSE IF ~areHeadersAllowed(c, parseHeaderList(r.ACRH))
    THEN [headers |-> headers, stage |-> "rejectHeaders"]
    ELSE [headers |-> PreflightHeaders(c, headers, origin, Join(c.AllowedMethods, sCommaSpace),
                                        parseHeaderList(r.ACRH)),
          stage |-> "written"]

\* handlePreflight: the header set it leaves, and the point where it returned
handlePreflight(c, r, headers) ==
    LET origin == r.Origin IN
    IF r.Method # sOPTIONS \/ origin = sEmpty \/ ~isOriginAllowed(c, origin)
    THEN [headers |-> headers, stage |-> "rejectOrigin"]
    ELSE LET reqMethod == r.ACRM IN
    IF ~isMethodAllowed(c, reqMethod)
    THEN [headers |-> headers, stage |-> "rejectMethod"]
    ELSE LET reqHeaders == parseHeaderList(r.ACRH) IN
    IF ~areHeadersAllowed(c, reqHeaders)
    THEN [headers |-> headers, stage |-> "rejectHeaders"]
    ELSE [headers |-> PreflightHeaders(c, headers, origin, ToUpper(reqMethod), reqHeaders),
          stage |-> "written"]

\* the headers an accepted actual request gets
ActualHeaders(c, headers, origin) ==
    LET h1 == Set(headers, ACAO, origin)
        h2 == IF Len(c.ExposedHeaders) > 0
              THEN Set(h1, ACEH, Join(c.ExposedHeaders, sCommaSpace)) ELSE h1
    IN  IF c.AllowCredentials THEN Set(h2, ACAC, sTrue) ELSE h2

\* handleActualRequest without the method check
handleActualRequestNoMethodCheck(c, r, headers) ==
    LET origin == r.Origin IN
    IF r.Method = sOPTIONS \/ origin = sEmpty \/ ~isOriginAllowed(c, origin)
    THEN [headers |-> headers, stage |-> "rejectOrigin"]
    ELSE [headers |-> ActualHeaders(c, headers, origin), stage |-> "written"]

\* handleActualRequest: the header set it leaves, and the point where it returned
handleActualRequest(c, r, headers) ==
    LET origin == r.Origin IN
    IF r.Method = sOPTIONS \/ origin = sEmpty \/ ~isOriginAllowed(c, origin)
    THEN [headers |-> headers, stage |-> "rejectOrigin"]
    ELSE IF ~isMethodAllowed(c, r.Method)
    THEN [headers |-> headers, stage |-> "rejectMethod"]
    ELSE [headers |-> ActualHeaders(c, headers, origin), stage |-> "written"]

\* ------------------------------------------------------------- the inputs
AllowedOriginsOpts == {<<>>, <<ob, oFO>>, <<ob, sStar>>}
AllowedMethodsOpts == {<<>>, <<sput>>, <<sGET, sOPTIONS>>}
AllowedHeadersOpts == {<<>>, <<hxa>>}
ExposedHeadersOpts == {<<>>, <<hxa, hb>>}
MaxAgeOpts == {-1, 0, MaxAgeCap}

OptionsSet == [AllowedOrigins : AllowedOriginsOpts, AllowedMethods : AllowedMethodsOpts,
               AllowedHeaders : AllowedHeadersOpts, ExposedHeaders : ExposedHeadersOpts,
               AllowCredentials : BOOLEAN, MaxAge : MaxAgeOpts]

Origins == {sEmpty, oFo, ob, oz}
Methods == {sGET, sput, sHEAD, sOPTIONS, soptions}
AcrmValues == {sEmpty, sput, sGET, soptions}
Tokens == {hXA, sOrigin}
TokenLists == UNION {[1..n -> Tokens] : n \in 0..MaxTokens}
\* well-formed lists, a name in the wrong case, a trailing comma, stray spaces
AcrhValues == {Join(ts, sCommaSpace) : ts \in TokenLists}
              \cup {hxa, hXA \o <<",">>, <<" ">> \o hXA \o <<" ", ",">> \o sOrigin}

PreflightRequests == [Method : {sOPTIONS}, Origin : Origins, ACRM : AcrmValues, ACRH : AcrhValues]
ActualRequests == [Method : Methods \ {sOPTIONS}, Origin : Origins, ACRM : {sEmpty, sput}, ACRH : {sEmpty}]
Requests == PreflightRequests \cup ActualRequests

NoHeaders == [x \in {} |-> sStale]
StaleHeaders == [x \in CorsHeaders |-> sStale]

\* the small inputs of the concurrent specification
ConcOptions == {o \in OptionsSet : /\ o.AllowedHeaders = <<>> /\ o.AllowedOrigins # <<>>
                                   /\ o.AllowedMethods = <<sput>> /\ o.MaxAge # 0
                                   /\ o.ExposedHeaders # <<>>}
ConcRequests == {r \in Requests : /\ r.Origin \in {oFo, oz}
                                  /\ r.Method \in {sOPTIONS, sput}
                                  /\ r.ACRM = sput
                                  /\ r.ACRH \in {sEmpty, sOrigin}}

\* --------------------------------------------------------------- the state
VARIABLES options, cors, req, w0, w, pc, via, path, stage, served, ret

vars == <<options, cors, req, w0, w, pc, via, path, stage, served, ret>>

Conns == DOMAIN req

NoCall == [fn |-> "none", arg |-> sEmpty, res |-> FALSE]

InitConns(n, reqs, hdrs) ==
    /\ req \in [1..n -> reqs]
    /\ w0 \in [1..n -> hdrs]
    /\ w = w0
    /\ pc = [i \in 1..n |-> "recv"]
    /\ via = [i \in 1..n |-> "none"]
    /\ path = [i \in 1..n |-> "none"]
    /\ stage = [i \in 1..n |-> "none"]
    /\ served = [i \in 1..n |-> 0]
    /\ ret = NoCall

\* one request on a Cors built by New
Init ==
    /\ options \in OptionsSet
    /\ cors = New(options)
    /\ InitConns(1, Requests, {NoHeaders, StaleHeaders})

\* NumReqs requests in flight on one Cors
InitConc ==
    /\ options \in ConcOptions
    /\ cors = New(options)
    /\ InitConns(NumReqs, ConcRequests, {NoHeaders})

\* no request: the matchers are called directly
InitFn ==
    /\ options \in OptionsSet
    /\ cors = New(options)
    /\ InitConns(0, Requests, {NoHeaders})

\* -------------------------------------------------------------- the actions
\* the effect of one adapter on request i: the composer chosen by the method,
\* then the position reached after handlePreflight (contP) or after
\* handleActualRequest (contA)
Compose(i, name, contP, contA) ==
    /\ pc[i] = "recv"
    /\ via' = [via EXCEPT ![i] = name]
    /\ IF req[i].Method = sOPTIONS
       THEN LET out == handlePreflight(cors, req[i], w[i]) IN
            /\ w' = [w EXCEPT ![i] = out.headers]
            /\ stage' = [stage EXCEPT ![i] = out.stage]
            /\ path' = [path EXCEPT ![i] = "handlePreflight"]
            /\ pc' = [pc EXCEPT ![i] = contP]
       ELSE LET out == handleActualRequest(cors, req[i], w[i]) IN
            /\ w' = [w EXCEPT ![i] = out.headers]
            /\ stage' = [stage EXCEPT ![i] = out.stage]
            /\ path' = [path EXCEPT ![i] = "handleActualRequest"]
            /\ pc' = [pc EXCEPT ![i] = contA]
    /\ UNCHANGED <<options, req, w0, served, ret>>

\* a dispatch that switches the credentials flag off once it has answered
DispatchForgetful(i, name, contP, contA) ==
    /\ Compose(i, name, contP, contA)
    /\ cors' = [cors EXCEPT !.AllowCredentials = FALSE]

\* the dispatch shared by the three adapters: the policy is only read
Dispatch(i, name, contP, contA) ==
    /\ Compose(i, name, contP, contA)
    /\ UNCHANGED cors

\* Handler calling the wrapped handler after a preflight too
HandlerAlwaysNext(i) == Dispatch(i, "Handler", "next", "next")

Handler(i) == Dispatch(i, "Handler", "done", "next")

HandlerFunc(i) == Dispatch(i, "HandlerFunc", "done", "done")

ServeHTTP(i) == Dispatch(i, "ServeHTTP", "done", "next")

\* h.ServeHTTP(w, r) in Handler
WrappedServeHTTP(i) ==
    /\ pc[i] = "next"
    /\ via[i] = "Handler"
    /\ served' = [served EXCEPT ![i] = @ + 1]
    /\ pc' = [pc EXCEPT ![i] = "done"]
    /\ UNCHANGED <<options, cors, req, w0, w, via, path, stage, ret>>

\* next(w, r) in ServeHTTP
NextCallback(i) ==
    /\ pc[i] = "next"
    /\ via[i] = "ServeHTTP"
    /\ served' = [served EXCEPT ![i] = @ + 1]
    /\ pc' = [pc EXCEPT ![i] = "done"]
    /\ UNCHANGED <<options, cors, req, w0, w, via, path, stage, ret>>

Next ==
    \/ \E i \in Conns : Handler(i)
    \/ \E i \in Conns : HandlerFunc(i)
    \/ \E i \in Conns : ServeHTTP(i)
    \/ \E i \in Conns : WrappedServeHTTP(i)
    \/ \E i \in Conns : NextCallback(i)

Spec == Init /\ [][Next]_vars

SpecConc == InitConc /\ [][Next]_vars

\* direct calls of the matchers
CallIsOriginAllowed ==
    /\ \E origin \in Origins :
          ret' = [fn |-> "isOriginAllowed", arg |-> origin, res |-> isOriginAllowed(cors, origin)]
    /\ UNCHANGED <<options, cors, req, w0, w, pc, via, path, stage, served>>

CallIsMethodAllowed ==
    /\ \E method \in Methods \cup AcrmValues :
          ret' = [fn |-> "isMethodAllowed", arg |-> method, res |-> isMethodAllowed(cors, method)]
    /\ UNCHANGED <<options, cors, req, w0, w, pc, via, path, stage, served>>

CallAreHeadersAllowed ==
    /\ \E value \in AcrhValues :
          ret' = [fn |-> "areHeadersAllowed", arg |-> parseHeaderList(value),
                  res |-> areHeadersAllowed(cors, parseHeaderList(value))]
    /\ UNCHANGED <<options, cors, req, w0, w, pc, via, path, stage, served>>

NextFn == CallIsOriginAllowed \/ CallIsMethodAllowed \/ CallAreHeadersAllowed

SpecFn == InitFn /\ [][NextFn]_vars

\* ------------------------------------------------------------ properties
InList(list, x) == \E k \in 1..Len(list) : list[k] = x

\* header k of response i carries value v
IsSet(i, k, v) == k \in DOMAIN w[i] /\ w[i][k] = v

\* header k of response i is as it was when the request entered
Same(i, k) == /\ (k \in DOMAIN w[i]) = (k \in DOMAIN w0[i])
              /\ k \in DOMAIN w[i] => w[i][k] = w0[i][k]

\* the number a string of decimal digits denotes
RECURSIVE Atoi(_)
Atoi(str) == IF Len(str) = 0 THEN 0
             ELSE 10 * Atoi(SubSeq(str, 1, Len(str) - 1)) + (IndexIn(Digits, str[Len(str)]) - 1)

IsDecimal(str) == Len(str) > 0 /\ \A k \in 1..Len(str) : IndexIn(Digits, str[k]) > 0

Preflighted(i) == path[i] = "handlePreflight"

Annotated(i) == path[i] = "handleActualRequest"

\* C1: through Handler or ServeHTTP, a request whose method is exactly OPTIONS
\* never reaches the wrapped handler (or next); any other request reaches it
\* exactly once, and only after handleActualRequest has returned, whether it
\* wrote headers or aborted.
C1_WrappedHandler ==
    \A i \in Conns :
        via[i] \in {"Handler", "ServeHTTP"} =>
            /\ req[i].Method = sOPTIONS => served[i] = 0 /\ pc[i] = "done"
            /\ req[i].Method # sOPTIONS =>
                  /\ served[i] \in {0, 1}
                  /\ pc[i] = "done" <=> served[i] = 1
                  /\ pc[i] = "next" <=> served[i] = 0
                  /\ Annotated(i)
                  /\ stage[i] \in {"rejectOrigin", "rejectMethod", "written"}

C1_Witness ==
    \E i \in Conns : /\ via[i] = "ServeHTTP" /\ req[i].Method = sHEAD
                     /\ stage[i] = "rejectMethod" /\ served[i] = 1 /\ pc[i] = "done"

\* C2: a preflight whose origin is empty or not allowed, or whose requested
\* method is not allowed, or whose requested headers are not allowed, leaves
\* the response headers exactly as they were; the checks are made in the order
\* origin, method, headers, and nothing is written unless all three pass.
C2_PreflightRejectFrame ==
    \A i \in Conns :
        (Preflighted(i) /\ req[i].Method = sOPTIONS) =>
            LET originOK == req[i].Origin # sEmpty /\ isOriginAllowed(cors, req[i].Origin)
                methodOK == isMethodAllowed(cors, req[i].ACRM)
                headersOK == areHeadersAllowed(cors, parseHeaderList(req[i].ACRH))
            IN  /\ ~originOK => stage[i] = "rejectOrigin"
                /\ (originOK /\ ~methodOK) => stage[i] = "rejectMethod"
                /\ (originOK /\ methodOK /\ ~headersOK) => stage[i] = "rejectHeaders"
                /\ ~(originOK /\ methodOK /\ headersOK) => w[i] = w0[i]
                /\ stage[i] # "written" => w[i] = w0[i]

C2_Witness ==
    \E i \in Conns : /\ Preflighted(i) /\ stage[i] = "rejectHeaders"
                     /\ w0[i] = StaleHeaders /\ w[i] = StaleHeaders
                     /\ req[i].Origin = oFo

\* C3: a preflight that passes the three checks gets Allow-Origin = the Origin
\* as received (never "*"), Allow-Methods = the uppercased requested method,
\* Allow-Headers = the requested tokens joined with ", " iff there are any,
\* Allow-Credentials = "true" iff allowCredentials, Max-Age = maxAge in decimal
\* iff maxAge > 0, and Expose-Headers is left alone.
C3_PreflightHeaders ==
    \A i \in Conns :
        (Preflighted(i) /\ stage[i] = "written") =>
            LET reqHeaders == parseHeaderList(req[i].ACRH) IN
            /\ IsSet(i, ACAO, req[i].Origin) /\ w[i][ACAO] # sStar
            /\ IsSet(i, ACAM, ToUpper(req[i].ACRM))
            /\ IF Len(reqHeaders) > 0
               THEN /\ ACAH \in DOMAIN w[i]
                    /\ parseHeaderList(w[i][ACAH]) = reqHeaders
                    /\ Len(w[i][ACAH]) = Len(Join(reqHeaders, <<>>)) + 2 * (Len(reqHeaders) - 1)
               ELSE Same(i, ACAH)
            /\ IF cors.AllowCredentials THEN IsSet(i, ACAC, sTrue) ELSE Same(i, ACAC)
            /\ IF cors.MaxAge > 0
               THEN /\ ACMA \in DOMAIN w[i] /\ IsDecimal(w[i][ACMA])
                    /\ Atoi(w[i][ACMA]) = cors.MaxAge
               ELSE Same(i, ACMA)
            /\ Same(i, ACEH)

C3_Witness ==
    \E i \in Conns : /\ Preflighted(i) /\ stage[i] = "written"
                     /\ InList(cors.AllowedOrigins, sStar)
                     /\ req[i].Origin = oFo /\ req[i].ACRM = sput
                     /\ Len(parseHeaderList(req[i].ACRH)) = 2
                     /\ cors.AllowCredentials /\ cors.MaxAge > 9
                     /\ w0[i] = StaleHeaders

\* C4: a request whose method is not OPTIONS gets CORS headers iff its Origin
\* is non-empty, the origin matcher allows it and the method matcher allows
\* its own method; then Allow-Origin = the Origin, Expose-Headers =
\* exposedHeaders joined with ", " iff there are any, Allow-Credentials =
\* "true" iff allowCredentials, and Allow-Methods, Allow-Headers and Max-Age
\* are left alone; otherwise nothing is written.
C4_ActualHeaders ==
    \A i \in Conns :
        (Annotated(i) /\ req[i].Method # sOPTIONS) =>
            LET accepted == /\ req[i].Origin # sEmpty
                            /\ isOriginAllowed(cors, req[i].Origin)
                            /\ isMethodAllowed(cors, req[i].Method)
            IN  /\ accepted <=> w[i] # w0[i]
                /\ accepted <=> stage[i] = "written"
                /\ accepted =>
                      /\ IsSet(i, ACAO, req[i].Origin)
                      /\ IF Len(cors.ExposedHeaders) > 0
                         THEN IsSet(i, ACEH, Join(cors.ExposedHeaders, sCommaSpace))
                         ELSE Same(i, ACEH)
                      /\ IF cors.AllowCredentials THEN IsSet(i, ACAC, sTrue) ELSE Same(i, ACAC)
                      /\ Same(i, ACAM) /\ Same(i, ACAH) /\ Same(i, ACMA)

C4_Witness ==
    \E i \in Conns : /\ Annotated(i) /\ stage[i] = "written" /\ req[i].Method = sput
                     /\ Len(cors.ExposedHeaders) = 2 /\ ~cors.AllowCredentials
                     /\ w0[i] = StaleHeaders

\* C5 as stated: isOriginAllowed answers "allowed" iff the origin is non-empty
\* and the list holds "*" or the lowercased origin.
C5_OriginMatcherRejectsEmpty ==
    ret.fn = "isOriginAllowed" =>
        (ret.res <=> /\ ret.arg # sEmpty
                     /\ \/ InList(cors.AllowedOrigins, sStar)
                        \/ InList(cors.AllowedOrigins, ToLower(ret.arg)))

\* C5 amended: isOriginAllowed answers "allowed" iff the list holds "*" or the
\* lowercased origin, whether or not the origin is empty; a list without "*"
\* allows only case-insensitive exact matches of a listed origin.
C5_OriginMatcher ==
    ret.fn = "isOriginAllowed" =>
        /\ ret.res <=> \/ InList(cors.AllowedOrigins, sStar)
                       \/ InList(cors.AllowedOrigins, ToLower(ret.arg))
        /\ InList(cors.AllowedOrigins, sStar) => ret.res
        /\ ~InList(cors.AllowedOrigins, sStar) =>
              (ret.res <=> \E k \in 1..Len(options.AllowedOrigins) :
                              ToLower(options.AllowedOrigins[k]) = ToLower(ret.arg))

C5_Witness ==
    /\ ret.fn = "isOriginAllowed" /\ ret.arg = oFo /\ ret.res
    /\ ~InList(cors.AllowedOrigins, sStar)

\* C6 as stated: a Cors built by New from options with an empty AllowedMethods
\* list rejects every method string.
C6_EmptyMethodsRejectAll ==
    (Len(options.AllowedMethods) = 0 /\ ret.fn = "isMethodAllowed") => ~ret.res

\* C6 amended: a Cors built by New from options with an empty AllowedMethods
\* list holds the default GET, POST, and its method matcher allows exactly the
\* method strings that uppercase to GET, POST or OPTIONS.
C6_EmptyMethodsDefault ==
    Len(options.AllowedMethods) = 0 =>
        /\ cors.AllowedMethods = <<sGET, sPOST>>
        /\ ret.fn = "isMethodAllowed" => (ret.res <=> ToUpper(ret.arg) \in {sGET, sPOST, sOPTIONS})

C6_Witness ==
    /\ Len(options.AllowedMethods) = 0
    /\ ret.fn = "isMethodAllowed" /\ ret.arg = sGET /\ ret.res

\* C7: under a non-empty allowedMethods without OPTIONS the method matcher
\* still allows a method that uppercases to OPTIONS and rejects a method that
\* uppercases neither to OPTIONS nor to an entry of the list; a request whose
\* method is OPTIONS goes through handlePreflight, never handleActualRequest.
C7_OptionsExemption ==
    \A i \in Conns :
        /\ (stage[i] # "none" /\ req[i].Method = sOPTIONS) => Preflighted(i)
        /\ Annotated(i) => req[i].Method # sOPTIONS
        /\ (/\ Len(cors.AllowedMethods) > 0 /\ ~InList(cors.AllowedMethods, sOPTIONS)
            /\ stage[i] \notin {"none", "rejectOrigin"}) =>
              LET m == IF Preflighted(i) THEN req[i].ACRM ELSE req[i].Method IN
              /\ ToUpper(m) = sOPTIONS => stage[i] # "rejectMethod"
              /\ (ToUpper(m) # sOPTIONS /\ ~InList(cors.AllowedMethods, ToUpper(m)))
                    => stage[i] = "rejectMethod"

C7_Witness ==
    \E i \in Conns : /\ Preflighted(i) /\ req[i].ACRM = soptions /\ stage[i] = "written"
                     /\ cors.AllowedMethods = <<sPUT>>

\* C8: areHeadersAllowed answers "allowed" iff the list of requested tokens is
\* empty or every token is, case-sensitively, an entry of the canonicalised
\* allowedHeaders; one unmatched token (an empty one too) fails the check, and
\* a request listing only "Origin" is allowed under every policy.
C8_HeaderMatcher ==
    ret.fn = "areHeadersAllowed" =>
        /\ ret.res <=> \/ Len(ret.arg) = 0
                       \/ \A k \in 1..Len(ret.arg) : InList(cors.AllowedHeaders, ret.arg[k])
        /\ (\E k \in 1..Len(ret.arg) : ret.arg[k] = sEmpty) => ~ret.res
        /\ ret.arg = <<sOrigin>> => ret.res

C8_Witness ==
    /\ ret.fn = "areHeadersAllowed" /\ ret.arg = <<hXA, sEmpty>> /\ ~ret.res
    /\ InList(cors.AllowedHeaders, hXA)

\* C9: no request changes the policy: whatever the interleaving of the
\* requests in flight, the policy is the one New built, and two requests with
\* the same request data that have been answered carry the same headers.
C9_PolicyReadOnly ==
    /\ cors = New(options)
    /\ \A i, j \in Conns :
          (/\ stage[i] # "none" /\ stage[j] # "none"
           /\ req[i] = req[j] /\ w0[i] = w0[j]) => (w[i] = w[j] /\ stage[i] = stage[j])

C9_Witness ==
    \E i, j \in Conns : /\ i # j /\ req[i] = req[j] /\ via[i] # via[j]
                        /\ stage[i] = "written" /\ stage[j] = "written"
                        /\ pc[i] = "done" /\ pc[j] = "next"
                        /\ cors.AllowCredentials

\* C10: on the actual-request path Allow-Origin is set only if the request's
\* method, uppercased, is an entry of allowedMethods.
C10_ActualMethodInList ==
    \A i \in Conns :
        (Annotated(i) /\ IsSet(i, ACAO, req[i].Origin))
            => InList(cors.AllowedMethods, ToUpper(req[i].Method))

====
